---- MODULE Spec2Model ----
(***************************************************************************)
(* Model of mini-fs (src/src/lib.rs): the Store trait, the Ram, Local,     *)
(* Merge and Empty stores, the merge! macro and the MiniFs mount table.    *)
(*                                                                         *)
(* A path is the sequence of its components, as std::path::Path compares   *)
(* and strips paths component by component; the root directory is the      *)
(* component "/".  A Result<File> is a record (ok, file, err); an Option   *)
(* is a sequence of length at most one.                                    *)
(***************************************************************************)
EXTENDS Integers, Sequences, FiniteSets, TLC

VARIABLES inner, prev, ram, hist, stores, op, arg, sarg, ret, taken, calls

vars == <<inner, prev, ram, hist, stores, op, arg, sarg, ret, taken, calls>>

(***************************************************************************)
(* Bounds of the model.                                                    *)
(***************************************************************************)
MaxMounts == 4
MaxHist == 3
MaxStores == 3

(***************************************************************************)
(* Paths.                                                                  *)
(***************************************************************************)
Root == "/"

\* Path::strip_prefix: Ok(rest) iff base's components are a leading run of path's.
StripPrefix(path, base) ==
    IF Len(base) <= Len(path) /\ SubSeq(path, 1, Len(base)) = base
    THEN [ok |-> TRUE, np |-> SubSeq(path, Len(base) + 1, Len(path))]
    ELSE [ok |-> FALSE, np |-> <<>>]

\* PathBuf::join: an absolute argument replaces the receiver.
PathJoin(root, path) ==
    IF path # <<>> /\ path[1] = Root THEN path ELSE root \o path

(***************************************************************************)
(* Results and files.                                                      *)
(***************************************************************************)
NoFile == [from |-> "none", bytes |-> ""]

Ok(f) == [ok |-> TRUE, file |-> f, err |-> "none"]

Err(e) == [ok |-> FALSE, file |-> NoFile, err |-> e]

NoResult == [ok |-> FALSE, file |-> NoFile, err |-> "unset"]

FromRam(b) == [from |-> "ram", bytes |-> b]

FromFs(b) == [from |-> "fs", bytes |-> b]

\* The conversion of an io::Error into Error performed by `?` in Local::open.
FromIoError(e) == "Io"

(***************************************************************************)
(* The local disk seen by fs::File::open.                                  *)
(***************************************************************************)
DiskFiles == {<<Root, "etc", "y">>}

FsFileOpen(p) ==
    IF p \in DiskFiles THEN [ok |-> TRUE, bytes |-> "disk"]
    ELSE [ok |-> FALSE, bytes |-> ""]

(***************************************************************************)
(* Stores.                                                                 *)
(***************************************************************************)
EmptyMap == [q \in {} |-> ""]

Ram(m) == [kind |-> "Ram", inner |-> m]

Local(root) == [kind |-> "Local", root |-> root]

Merge(a, b) == [kind |-> "Merge", a |-> a, b |-> b]

Empty == [kind |-> "Empty"]

\* Ram::open
RamOpen(m, path) ==
    IF path \in DOMAIN m THEN Ok(FromRam(m[path])) ELSE Err("FileNotFound")

\* Ram::clear
RamClear(m) == EmptyMap

RamTouchKeep(m, path, file) ==
    [q \in DOMAIN m \cup {path} |-> IF q \in DOMAIN m THEN m[q] ELSE file]

\* Ram::touch (BTreeMap::insert replaces the value of an existing key)
RamTouch(m, path, file) ==
    [q \in DOMAIN m \cup {path} |-> IF q = path THEN file ELSE m[q]]

\* Local::open
LocalOpen(root, path) ==
    LET f == FsFileOpen(PathJoin(root, path))
    IN  IF f.ok THEN Ok(FromFs(f.bytes)) ELSE Err(FromIoError("NotFound"))

\* Empty::open
EmptyOpen(path) == Err("FileNotFound")

RECURSIVE StoreOpen(_, _)

MergeOpenOnlyNotFound(a, b, path) ==
    LET ra == StoreOpen(a, path)
    IN  IF ra.ok \/ ra.err # "FileNotFound" THEN ra ELSE StoreOpen(b, path)

MergeOpenKeepFirstErr(a, b, path) ==
    LET ra == StoreOpen(a, path)
        rb == StoreOpen(b, path)
    IN  IF ra.ok THEN ra ELSE IF rb.ok THEN rb ELSE ra

\* Merge::open: a.open(path).or_else(|_| b.open(path))
MergeOpen(a, b, path) ==
    LET ra == StoreOpen(a, path)
    IN  IF ra.ok THEN ra ELSE StoreOpen(b, path)

\* Store::open through a generic or boxed store
StoreOpen(s, path) ==
    CASE s.kind = "Ram" -> RamOpen(s.inner, path)
      [] s.kind = "Local" -> LocalOpen(s.root, path)
      [] s.kind = "Merge" -> MergeOpen(s.a, s.b, path)
      [] s.kind = "Empty" -> EmptyOpen(path)

RECURSIVE MergeMacroRev(_)

MergeMacroRev(ss) ==
    IF Len(ss) = 1 THEN Merge(ss[1], Empty)
    ELSE Merge(ss[Len(ss)], MergeMacroRev(SubSeq(ss, 1, Len(ss) - 1)))

RECURSIVE MergeMacro(_)

\* merge!(head) and merge!(head, tail...)
MergeMacro(ss) ==
    IF Len(ss) = 1 THEN Merge(Head(ss), Empty)
    ELSE Merge(Head(ss), MergeMacro(Tail(ss)))

(***************************************************************************)
(* The mount table.                                                        *)
(***************************************************************************)
Mount(path, store) == [path |-> path, store |-> store]

\* MiniFs::new
MiniFsNew == <<>>

MountReplace(list, path, store) ==
    SelectSeq(list, LAMBDA m : m.path # path) \o <<Mount(path, store)>>

\* MiniFs::mount: push_back
MiniFsMount(list, path, store) == Append(list, Mount(path, store))

RECURSIVE PositionFrom(_, _, _)

PositionFrom(list, path, i) ==
    IF i > Len(list) THEN <<>>
    ELSE IF list[i].path = path THEN <<i - 1>>
    ELSE PositionFrom(list, path, i + 1)

PositionFirst(list, path) == PositionFrom(list, path, 1)

RECURSIVE RPositionPrefixFrom(_, _, _)

RPositionPrefixFrom(list, path, i) ==
    IF i = 0 THEN <<>>
    ELSE IF StripPrefix(list[i].path, path).ok THEN <<i - 1>>
    ELSE RPositionPrefixFrom(list, path, i - 1)

RPositionPrefix(list, path) == RPositionPrefixFrom(list, path, Len(list))

RECURSIVE RPositionFrom(_, _, _)

RPositionFrom(list, path, i) ==
    IF i = 0 THEN <<>>
    ELSE IF list[i].path = path THEN <<i - 1>>
    ELSE RPositionFrom(list, path, i - 1)

\* self.inner.iter().rposition(|p| p.path == path): the 0-based index of the
\* last binding whose path equals path, or None
RPosition(list, path) == RPositionFrom(list, path, Len(list))

\* LinkedList::split_off(at): the receiver keeps [0, at), the result is [at, len)
SplitOff(list, at) ==
    [head |-> SubSeq(list, 1, at), tail |-> SubSeq(list, at + 1, Len(list))]

\* MiniFs::umount: the table left behind and the Option returned
MiniFsUmount(list, path) ==
    LET pos == RPosition(list, path)
    IN  IF pos # <<>>
        THEN LET sp == SplitOff(list, pos[1])
                 fs == IF sp.tail # <<>> THEN <<Head(sp.tail).store>> ELSE <<>>
                 rest == IF sp.tail # <<>> THEN Tail(sp.tail) ELSE sp.tail
             IN  [inner |-> sp.head \o rest, fs |-> fs]
        ELSE [inner |-> list, fs |-> <<>>]

RECURSIVE FindMapLongestFrom(_, _, _, _)

FindMapLongestFrom(list, path, i, best) ==
    IF i = 0 THEN best
    ELSE LET sp == StripPrefix(path, list[i].path)
         IN  IF sp.ok /\ (best = <<>> \/ Len(sp.np) < Len(best[1].np))
             THEN FindMapLongestFrom(list, path, i - 1, <<[idx |-> i, np |-> sp.np]>>)
             ELSE FindMapLongestFrom(list, path, i - 1, best)

FindMapLongest(list, path) == FindMapLongestFrom(list, path, Len(list), <<>>)

RECURSIVE FindMapFrom(_, _, _)

FindMapFrom(list, path, i) ==
    IF i = 0 THEN <<>>
    ELSE LET sp == StripPrefix(path, list[i].path)
         IN  IF sp.ok THEN <<[idx |-> i, np |-> sp.np]>>
             ELSE FindMapFrom(list, path, i - 1)

\* self.inner.iter().rev().find_map(..): the stripped path and the binding
\* (by its position in the list) of the last binding whose path is a prefix
FindMap(list, path) == FindMapFrom(list, path, Len(list))

RECURSIVE OpenFallbackFrom(_, _, _, _)

OpenFallbackFrom(list, path, i, log) ==
    IF i = 0 THEN [ret |-> Err("FileNotFound"), calls |-> log]
    ELSE LET sp == StripPrefix(path, list[i].path)
             r == StoreOpen(list[i].store, sp.np)
             log2 == Append(log, [idx |-> i, path |-> sp.np])
         IN  IF ~sp.ok THEN OpenFallbackFrom(list, path, i - 1, log)
             ELSE IF r.ok THEN [ret |-> r, calls |-> log2]
             ELSE OpenFallbackFrom(list, path, i - 1, log2)

MiniFsOpenFallback(list, path) == OpenFallbackFrom(list, path, Len(list), <<>>)

MiniFsOpenDefault(list, path) ==
    LET next == FindMap(list, path)
    IN  IF next # <<>>
        THEN [ret |-> StoreOpen(list[next[1].idx].store, next[1].np),
              calls |-> <<[idx |-> next[1].idx, path |-> next[1].np]>>]
        ELSE IF list # <<>>
        THEN [ret |-> StoreOpen(list[Len(list)].store, path),
              calls |-> <<[idx |-> Len(list), path |-> path]>>]
        ELSE [ret |-> Err("FileNotFound"), calls |-> <<>>]

\* MiniFs::open: the result, and the calls made to bound stores (the position
\* of the binding and the path handed to its store)
MiniFsOpen(list, path) ==
    LET next == FindMap(list, path)
    IN  IF next # <<>>
        THEN [ret |-> StoreOpen(list[next[1].idx].store, next[1].np),
              calls |-> <<[idx |-> next[1].idx, path |-> next[1].np]>>]
        ELSE [ret |-> Err("FileNotFound"), calls |-> <<>>]

(***************************************************************************)
(* Inputs.                                                                 *)
(***************************************************************************)
RamA == Ram((<<"x">> :> "A.x") @@ (<<"etc", "x">> :> "A.etc.x"))

RamB == Ram((<<"x">> :> "B.x") @@ (<<"y">> :> "B.y"))

LocalC == Local(<<Root, "etc">>)

MountStores == {RamA, LocalC}

MountPaths == {<<Root>>, <<Root, "etc">>, <<Root, "etc", "x">>}

LookupPaths ==
    {<<Root, "etc", "x">>, <<Root, "etc", "y">>, <<Root, "etc", "x", "y">>,
     <<Root, "x">>, <<Root, "etc">>, <<"y">>}

RelPaths == {<<"x">>, <<"y">>, <<"etc", "x">>, <<"z">>}

RamPaths == {<<"x">>, <<"etc", "x">>}

Bytes == {"b1", "b2"}

MergeStores == {RamA, RamB, LocalC, Merge(RamB, RamA)}

StoreLists == UNION {[1..n -> MergeStores] : n \in 1..MaxStores}

(***************************************************************************)
(* The mount table under its callers.                                      *)
(***************************************************************************)
Init ==
    /\ inner = MiniFsNew
    /\ prev = <<>>
    /\ ram = EmptyMap
    /\ hist = <<>>
    /\ stores = <<>>
    /\ op = "new"
    /\ arg = <<>>
    /\ sarg = <<>>
    /\ ret = NoResult
    /\ taken = <<>>
    /\ calls = <<>>

mount(path, store) ==
    /\ Len(inner) < MaxMounts
    /\ inner' = MiniFsMount(inner, path, store)
    /\ prev' = inner
    /\ op' = "mount"
    /\ arg' = path
    /\ sarg' = <<store>>
    /\ ret' = NoResult
    /\ taken' = <<>>
    /\ calls' = <<>>
    /\ UNCHANGED <<ram, hist, stores>>

umount(path) ==
    /\ inner' = MiniFsUmount(inner, path).inner
    /\ taken' = MiniFsUmount(inner, path).fs
    /\ prev' = inner
    /\ op' = "umount"
    /\ arg' = path
    /\ sarg' = <<>>
    /\ ret' = NoResult
    /\ calls' = <<>>
    /\ UNCHANGED <<ram, hist, stores>>

open(path) ==
    /\ ret' = MiniFsOpen(inner, path).ret
    /\ calls' = MiniFsOpen(inner, path).calls
    /\ prev' = inner
    /\ op' = "open"
    /\ arg' = path
    /\ sarg' = <<>>
    /\ taken' = <<>>
    /\ UNCHANGED <<inner, ram, hist, stores>>

Next ==
    \/ \E path \in MountPaths, store \in MountStores : mount(path, store)
    \/ \E path \in MountPaths : umount(path)
    \/ \E path \in LookupPaths : open(path)

Spec == Init /\ [][Next]_vars

(***************************************************************************)
(* A Ram store under its caller; hist records the touch and clear calls    *)
(* made so far.                                                            *)
(***************************************************************************)
InitRam ==
    /\ inner = MiniFsNew
    /\ prev = <<>>
    /\ ram = EmptyMap
    /\ hist = <<>>
    /\ stores = <<>>
    /\ op = "new"
    /\ arg = <<>>
    /\ sarg = <<>>
    /\ ret = NoResult
    /\ taken = <<>>
    /\ calls = <<>>

touch(path, file) ==
    /\ Len(hist) < MaxHist
    /\ ram' = RamTouch(ram, path, file)
    /\ hist' = Append(hist, [op |-> "touch", path |-> path, bytes |-> file])
    /\ op' = "touch"
    /\ arg' = path
    /\ ret' = NoResult
    /\ UNCHANGED <<inner, prev, stores, sarg, taken, calls>>

clear ==
    /\ Len(hist) < MaxHist
    /\ ram' = RamClear(ram)
    /\ hist' = Append(hist, [op |-> "clear", path |-> <<>>, bytes |-> ""])
    /\ op' = "clear"
    /\ arg' = <<>>
    /\ ret' = NoResult
    /\ UNCHANGED <<inner, prev, stores, sarg, taken, calls>>

ram_open(path) ==
    /\ ret' = RamOpen(ram, path)
    /\ op' = "ram_open"
    /\ arg' = path
    /\ UNCHANGED <<inner, prev, ram, hist, stores, sarg, taken, calls>>

NextRam ==
    \/ \E path \in RamPaths, file \in Bytes : touch(path, file)
    \/ clear
    \/ \E path \in RamPaths : ram_open(path)

SpecRam == InitRam /\ [][NextRam]_vars

(***************************************************************************)
(* Merge::open and merge! applied to every list of stores and path.        *)
(***************************************************************************)
InitMerge ==
    /\ inner = MiniFsNew
    /\ prev = <<>>
    /\ ram = EmptyMap
    /\ hist = <<>>
    /\ stores \in StoreLists
    /\ op = "new"
    /\ arg \in RelPaths
    /\ sarg = <<>>
    /\ ret = NoResult
    /\ taken = <<>>
    /\ calls = <<>>

\* Merge(stores[1], stores[2]).open(arg)
merge_open ==
    /\ Len(stores) >= 2
    /\ ret' = StoreOpen(Merge(stores[1], stores[2]), arg)
    /\ op' = "merge"
    /\ UNCHANGED <<inner, prev, ram, hist, stores, arg, sarg, taken, calls>>

\* merge!(stores[1], ..., stores[n]).open(arg)
merge_macro_open ==
    /\ ret' = StoreOpen(MergeMacro(stores), arg)
    /\ op' = "merge!"
    /\ UNCHANGED <<inner, prev, ram, hist, stores, arg, sarg, taken, calls>>

\* Merge(stores[1], Empty).open(arg)
merge_empty_open ==
    /\ ret' = StoreOpen(Merge(stores[1], Empty), arg)
    /\ op' = "merge_empty"
    /\ UNCHANGED <<inner, prev, ram, hist, stores, arg, sarg, taken, calls>>

NextMerge ==
    \/ merge_open
    \/ merge_macro_open
    \/ merge_empty_open

SpecMerge == InitMerge /\ [][NextMerge]_vars

(***************************************************************************)
(* Vocabulary of the properties, stated without the operators above.       *)
(***************************************************************************)
MaxOf(S) == CHOOSE x \in S : \A y \in S : y <= x

MinOf(S) == CHOOSE x \in S : \A y \in S : x <= y

IsPrefixOf(base, path) ==
    /\ Len(base) <= Len(path)
    /\ \A k \in 1..Len(base) : path[k] = base[k]

IsStrictPrefixOf(base, path) == IsPrefixOf(base, path) /\ Len(base) < Len(path)

Rest(path, base) == [k \in 1..(Len(path) - Len(base)) |-> path[k + Len(base)]]

\* the positions of the bindings whose mount path is a prefix of path
Matching(list, path) == {i \in 1..Len(list) : IsPrefixOf(list[i].path, path)}

\* the positions of the bindings whose mount path equals path
Exact(list, path) == {i \in 1..Len(list) : list[i].path = path}

Without(list, i) ==
    [k \in 1..(Len(list) - 1) |-> IF k < i THEN list[k] ELSE list[k + 1]]

\* the call MiniFs::open makes when it resolves path by the binding at i
CallTo(list, i, path) == [idx |-> i, path |-> Rest(path, list[i].path)]

AnswerOf(list, i, path) == StoreOpen(list[i].store, Rest(path, list[i].path))

(***************************************************************************)
(* Properties of the mount table (Spec).                                   *)
(***************************************************************************)

\* C1: when some binding's mount path is a prefix of the lookup path, open
\* returns exactly what the store of the most recently mounted such binding
\* returns for the stripped path, success or failure, and that store is the
\* only one called.
C1_LastMatchAnswers ==
    (op = "open" /\ Matching(inner, arg) # {}) =>
        LET i == MaxOf(Matching(inner, arg))
        IN  /\ ret = AnswerOf(inner, i, arg)
            /\ calls = <<CallTo(inner, i, arg)>>

\* C1 witness: the last match fails with its store's own error while an
\* earlier-mounted match would have succeeded.
C1_Witness ==
    /\ op = "open"
    /\ Cardinality(Matching(inner, arg)) >= 2
    /\ ~ret.ok /\ ret.err = "Io"
    /\ \E j \in Matching(inner, arg) : AnswerOf(inner, j, arg).ok

\* C7: when no binding's mount path is a prefix of the lookup path, open
\* fails with FileNotFound and calls no bound store.
C7_NoMatchNotFound ==
    (op = "open" /\ Matching(inner, arg) = {}) =>
        (ret = Err("FileNotFound") /\ calls = <<>>)

\* C7 witness: a lookup that no binding of a table left by mounts and an
\* unmount covers.
C7_Witness ==
    /\ op = "open"
    /\ Len(inner) >= 2
    /\ Matching(inner, arg) = {}
    /\ ret = Err("FileNotFound")

\* C9: mount appends the binding (path, store) as given and leaves every
\* earlier binding in place, an earlier binding with the same path included.
C9_MountAppends ==
    (op = "mount") =>
        /\ Len(inner) = Len(prev) + 1
        /\ inner[Len(inner)] = [path |-> arg, store |-> sarg[1]]
        /\ \A i \in 1..Len(prev) : inner[i] = prev[i]

\* C9 witness: a mount at a path that an earlier binding, not the first of
\* the table, already has with another store.
C9_Witness ==
    /\ op = "mount"
    /\ \E i \in 2..Len(prev) : prev[i].path = arg /\ prev[i].store # sarg[1]
    /\ Len(inner) = Len(prev) + 1

\* C6: umount of a path that no binding has exactly returns None and leaves
\* the table as it was.
C6_UmountAbsent ==
    (op = "umount" /\ Exact(prev, arg) = {}) =>
        (taken = <<>> /\ inner = prev)

\* C6 witness: the path is a strict prefix of one binding's mount path and
\* lies strictly underneath another's.
C6_Witness ==
    /\ op = "umount"
    /\ Exact(prev, arg) = {}
    /\ \E i \in 1..Len(prev) : IsStrictPrefixOf(arg, prev[i].path)
    /\ \E i \in 1..Len(prev) : IsStrictPrefixOf(prev[i].path, arg)
    /\ inner = prev

C3_Removed ==
    (op = "umount" /\ Exact(prev, arg) # {}) =>
        LET i == MaxOf(Exact(prev, arg))
        IN  /\ taken = <<prev[i].store>>
            /\ inner = Without(prev, i)

C3_Following ==
    (op = "umount" /\ Exact(prev, arg) # {} /\ op' = "umount" /\ arg' = arg) =>
        LET older == Exact(prev, arg) \ {MaxOf(Exact(prev, arg))}
        IN  taken' = IF older = {} THEN <<>>
                     ELSE <<prev[MaxOf(older)].store>>

\* C3: umount of a path that some binding has exactly removes only the most
\* recently mounted such binding and returns its store, the others keeping
\* their order; an immediately following umount of the same path returns the
\* next older binding's store, or None when there is none.
C3_UmountLastExact == [][C3_Removed' /\ C3_Following]_vars

\* C3 witness: the removed binding has an older binding with the same path
\* and another store, and bindings at other paths on both sides of it.
C3_Witness ==
    /\ op = "umount"
    /\ taken # <<>>
    /\ LET i == MaxOf(Exact(prev, arg))
       IN  /\ \E j \in 1..(i - 1) : prev[j].path = arg /\ prev[j].store # taken[1]
           /\ \E j \in 1..(i - 1) : prev[j].path # arg
           /\ \E j \in (i + 1)..Len(prev) : prev[j].path # arg
           /\ inner = Without(prev, i)

C10_Shadowed ==
    (op = "open" /\ Matching(inner, arg) # {}) =>
        LET j == MaxOf(Matching(inner, arg))
        IN  (\E i \in Matching(inner, arg) :
                i < j /\ IsStrictPrefixOf(inner[j].path, inner[i].path)) =>
                   /\ calls = <<CallTo(inner, j, arg)>>
                   /\ ret = AnswerOf(inner, j, arg)

C10_Restored ==
    (/\ op = "umount" /\ taken # <<>> /\ op' = "open"
     /\ Cardinality(Matching(prev, arg')) >= 2
     /\ prev[MaxOf(Matching(prev, arg'))].path = arg) =>
        LET j == MaxOf(Matching(prev, arg'))
            i == MaxOf(Matching(prev, arg') \ {j})
        IN  /\ calls' = <<CallTo(prev, i, arg')>>
            /\ ret' = AnswerOf(prev, i, arg')

\* C10: a later mount at a prefix of an earlier mount's path answers the
\* lookups under the earlier mount, with only its own shorter path stripped
\* and without the earlier store being called, until it is unmounted; the
\* next lookup is then answered by the earlier mount again.
C10_MountOrderDecides == []C10_Shadowed /\ [][C10_Restored]_vars

\* C10 witness: a lookup under "/etc" answered by a store mounted later at
\* the shorter path, the path handed to it keeping the components below.
C10_Witness ==
    /\ op = "open"
    /\ Cardinality(Matching(inner, arg)) >= 2
    /\ LET j == MaxOf(Matching(inner, arg))
       IN  /\ \E i \in Matching(inner, arg) :
                 i < j /\ IsStrictPrefixOf(inner[j].path, inner[i].path)
           /\ calls = <<CallTo(inner, j, arg)>>
           /\ ret.ok

(***************************************************************************)
(* Properties of the Ram store (SpecRam).                                  *)
(***************************************************************************)
RECURSIVE LastTouch(_, _, _)

\* the bytes of the most recent touch of path among the first i calls, none
\* when a clear came after it or there was no such touch
LastTouch(h, path, i) ==
    IF i = 0 THEN <<>>
    ELSE IF h[i].op = "clear" THEN <<>>
    ELSE IF h[i].path = path THEN <<h[i].bytes>>
    ELSE LastTouch(h, path, i - 1)

Expected(h, path) ==
    IF LastTouch(h, path, Len(h)) = <<>> THEN Err("FileNotFound")
    ELSE Ok([from |-> "ram", bytes |-> LastTouch(h, path, Len(h))[1]])

\* C8: after any sequence of touch and clear, open(path) yields the bytes of
\* the most recent touch of path since the last clear, and fails with
\* FileNotFound when there is none.
C8_RamRoundTrip ==
    /\ \A path \in RamPaths : RamOpen(ram, path) = Expected(hist, path)
    /\ (op = "ram_open") => ret = Expected(hist, arg)

\* C8 witness: open returns the bytes of a second touch of a path, made
\* after a touch of the same path with other bytes.
C8_Witness ==
    /\ op = "ram_open"
    /\ ret.ok
    /\ \E i, j \in 1..Len(hist) :
          /\ i < j
          /\ hist[i].op = "touch" /\ hist[i].path = arg
          /\ hist[j].op = "touch" /\ hist[j].path = arg
          /\ hist[i].bytes # hist[j].bytes
          /\ ret.file.bytes = hist[j].bytes
          /\ \A k \in j..Len(hist) : hist[k].op = "touch"

(***************************************************************************)
(* Properties of Merge and merge! (SpecMerge).                             *)
(***************************************************************************)

\* C2: Merge(A, B).open(p) is A.open(p) when that succeeds, and B.open(p)
\* otherwise, whatever error A failed with.
C2_MergeFallsBack ==
    (op = "merge") =>
        LET ra == StoreOpen(stores[1], arg)
            rb == StoreOpen(stores[2], arg)
        IN  ret = IF ra.ok THEN ra ELSE rb

\* C2 witness: both fail, with different errors, and B's is the one returned.
C2_Witness ==
    /\ op = "merge"
    /\ ~StoreOpen(stores[1], arg).ok
    /\ ~StoreOpen(stores[2], arg).ok
    /\ StoreOpen(stores[1], arg).err = "Io"
    /\ ret = Err("FileNotFound")

RECURSIVE Chain(_, _)

\* Merge(s_i, Merge(s_i+1, ... Merge(s_n, Empty)))
Chain(ss, i) ==
    IF i > Len(ss) THEN Empty ELSE Merge(ss[i], Chain(ss, i + 1))

\* C4: merge!(s1, ..., sn) is Merge(s1, Merge(s2, ... Merge(sn, Empty))) and
\* its open returns the result of the first store of the list whose open
\* succeeds, and FileNotFound when none does.
C4_MergeMacroPriority ==
    (op = "merge!") =>
        LET good == {i \in 1..Len(stores) : StoreOpen(stores[i], arg).ok}
        IN  /\ MergeMacro(stores) = Chain(stores, 1)
            /\ ret = IF good = {} THEN Err("FileNotFound")
                     ELSE StoreOpen(stores[MinOf(good)], arg)

\* C4 witness: the first store fails, the second and the third succeed with
\* different contents, and the second's is returned.
C4_Witness ==
    /\ op = "merge!"
    /\ Len(stores) >= 3
    /\ ~StoreOpen(stores[1], arg).ok
    /\ StoreOpen(stores[2], arg).ok
    /\ StoreOpen(stores[3], arg).ok
    /\ StoreOpen(stores[2], arg) # StoreOpen(stores[3], arg)
    /\ ret = StoreOpen(stores[2], arg)

\* C5 as stated: Merge(A, Empty).open(p) equals A.open(p), failures of
\* either class included.
C5_EmptyIsIdentity ==
    (op = "merge_empty") => ret = StoreOpen(stores[1], arg)

\* C5 amended: Merge(A, Empty).open(p) equals A.open(p) when A.open(p)
\* succeeds or fails with FileNotFound; when A.open(p) fails with another
\* error, Merge(A, Empty).open(p) fails with FileNotFound.
C5_EmptyIsIdentityUpToNotFound ==
    (op = "merge_empty") =>
        LET ra == StoreOpen(stores[1], arg)
        IN  ret = IF ra.ok \/ ra.err = "FileNotFound" THEN ra
                  ELSE Err("FileNotFound")

\* C5 witness: A fails with an I/O error and the merge reports FileNotFound.
C5_Witness ==
    /\ op = "merge_empty"
    /\ ~StoreOpen(stores[1], arg).ok
    /\ StoreOpen(stores[1], arg).err = "Io"
    /\ ret = Err("FileNotFound")

====
